---- MODULE Spec2Model ----
(***************************************************************************)
(* Model of the speech servers of kihbbi.ai:                               *)
(*   TTS/xtts_server.py   sanitize_text, resolve_speaker_path, /tts        *)
(*   TTS/piper_server.py  /tts (three synthesis strategies),               *)
(*                        create_silent_wav                                *)
(* A text is a sequence of one-character strings.  A request is handled    *)
(* step by step; every external call (the model, the voice, the file       *)
(* system) is a step whose result or fault is chosen nondeterministically. *)
(***************************************************************************)
EXTENDS Integers, Sequences, FiniteSets, TLC

(***************************************************************************)
(* Bounds of the model.                                                    *)
(***************************************************************************)
\* longest request text of the XTTS handler
MaxLen == 6
\* longest text given to sanitize_text alone, over the smaller alphabet
SanMaxLen == 7
\* longest request text of the Piper handler
PiperMaxLen == 2
\* most samples (or blob bytes) one synthesis call returns
MaxSamples == 1
\* a float sample is the multiple n of 1/(FloatDen * 32767)
FloatDen == 10
\* longest duration given to create_silent_wav alone, in milliseconds
MaxDurationMs == 120
\* number of XTTS handlers running at once
MaxHandlers == 3
\* most segments a transcription yields
MaxSegments == 2

(***************************************************************************)
(* Characters.                                                             *)
(***************************************************************************)
Letters ==
  {"a","b","c","d","e","f","g","h","i","j","k","l","m",
   "n","o","p","q","r","s","t","u","v","w","x","y","z",
   "A","B","C","D","E","F","G","H","I","J","K","L","M",
   "N","O","P","Q","R","S","T","U","V","W","X","Y","Z"}

Digits == {"0","1","2","3","4","5","6","7","8","9"}

\* str.isalnum on one ASCII character
IsAlnum(c) == c \in Letters \cup Digits

\* what str.strip(), str.split() and the regex class \s treat as a blank
Whitespace == {" ", "\t", "\n", "\r"}

\* the regex class [.,!?]
Punct == {".", ",", "!", "?"}

\* the regex class [a-zA-Z0-9\s.,!?\-\'\" ]
SafeChars == Letters \cup Digits \cup Whitespace \cup Punct \cup {"-", "'", "\""}

\* characters str.encode('ascii', 'ignore') drops; the dashes and the
\* ellipsis are replaced before that
EMDASH == "EMDASH"
ENDASH == "ENDASH"
ELLIPSIS == "ELLIPSIS"
NONASCII == "NONASCII"
NonAscii == {EMDASH, ENDASH, ELLIPSIS, NONASCII}

\* the characters request texts are drawn from
RequestAlphabet == {"a", " ", "."}
\* the characters sanitize_text inputs are drawn from
Alphabet == {"a", " ", ".", "@"}
\* the characters the longer sanitize_text inputs are drawn from
SanAlphabet == {"a", " ", "-", "'"}

(***************************************************************************)
(* Sequence helpers (str methods and the regular expressions used).        *)
(***************************************************************************)
RECURSIVE SeqsUpTo(_, _)
SeqsUpTo(S, n) ==
  IF n = 0 THEN {<<>>}
  ELSE LET shorter == SeqsUpTo(S, n - 1)
       IN  shorter \cup {Append(s, c) : s \in {t \in shorter : Len(t) = n - 1}, c \in S}

RECURSIVE LStrip(_, _)
LStrip(s, chars) ==
  IF s = <<>> THEN <<>>
  ELSE IF Head(s) \in chars THEN LStrip(Tail(s), chars) ELSE s

RECURSIVE RStrip(_, _)
RStrip(s, chars) ==
  IF s = <<>> THEN <<>>
  ELSE IF s[Len(s)] \in chars THEN RStrip(SubSeq(s, 1, Len(s) - 1), chars) ELSE s

\* str.strip(chars)
Strip(s, chars) == RStrip(LStrip(s, chars), chars)

\* any(c.isalnum() for c in s)
HasAlnum(s) == \E i \in 1..Len(s) : IsAlnum(s[i])

\* sum(c.isalnum() for c in s)
AlnumCount(s) == Cardinality({i \in 1..Len(s) : IsAlnum(s[i])})

\* length of the run of characters of `chars` that starts at position i
RECURSIVE RunLen(_, _, _)
RunLen(s, i, chars) ==
  IF i > Len(s) \/ s[i] \notin chars THEN 0 ELSE 1 + RunLen(s, i + 1, chars)

\* str.split(): the maximal blank-free pieces
RECURSIVE SplitFrom(_, _)
SplitFrom(s, i) ==
  IF i > Len(s) THEN <<>>
  ELSE IF s[i] \in Whitespace THEN SplitFrom(s, i + 1)
  ELSE LET n == RunLen(s, i, {s[k] : k \in 1..Len(s)} \ Whitespace)
       IN  <<SubSeq(s, i, i + n - 1)>> \o SplitFrom(s, i + n)

Split(s) == SplitFrom(s, 1)

\* ' '.join(words)
RECURSIVE Join(_)
Join(words) ==
  IF words = <<>> THEN <<>>
  ELSE IF Len(words) = 1 THEN words[1]
  ELSE words[1] \o <<" ">> \o Join(Tail(words))

\* str.replace(old, new) for a one-character old
RECURSIVE ReplaceChar(_, _, _)
ReplaceChar(s, old, new) ==
  IF s = <<>> THEN <<>>
  ELSE (IF Head(s) = old THEN new ELSE <<Head(s)>>) \o ReplaceChar(Tail(s), old, new)

\* re.sub(r'[^...]', ' ', text): every character outside `keep` becomes a blank
MapOutside(s, keep) == [i \in 1..Len(s) |-> IF s[i] \in keep THEN s[i] ELSE " "]

\* re.sub(r'[^...]', '', text): every character outside `keep` is removed
DropOutside(s, keep) == SelectSeq(s, LAMBDA c : c \in keep)

\* re.sub(r'X{minRun,}', rep, text): each maximal run of at least minRun
\* characters of `chars` becomes rep
RECURSIVE CollapseRuns(_, _, _, _, _)
CollapseRuns(s, i, chars, minRun, rep) ==
  IF i > Len(s) THEN <<>>
  ELSE LET n == RunLen(s, i, chars)
       IN  IF n >= minRun
           THEN rep \o CollapseRuns(s, i + n, chars, minRun, rep)
           ELSE <<s[i]>> \o CollapseRuns(s, i + 1, chars, minRun, rep)

\* re.sub(r'\s+[.,!?]\s+', '. ', text), matches taken left to right
RECURSIVE SpacePunct(_, _)
SpacePunct(s, i) ==
  IF i > Len(s) THEN <<>>
  ELSE LET a == RunLen(s, i, Whitespace)
           b == RunLen(s, i + a + 1, Whitespace)
       IN  IF a >= 1 /\ i + a <= Len(s) /\ s[i + a] \in Punct /\ b >= 1
           THEN <<".", " ">> \o SpacePunct(s, i + a + 1 + b)
           ELSE <<s[i]>> \o SpacePunct(s, i + 1)

(***************************************************************************)
(* sanitize_text (xtts_server.py).  The empty sequence is the rejection.   *)
(***************************************************************************)
MIN_TEXT_LEN == 5
MAX_TEXT_LEN == 200

\* lines 61-74: strip, replace the typographic characters, drop non-ASCII
Normalize(text) ==
  LET t1 == Strip(text, Whitespace)
      t2 == ReplaceChar(ReplaceChar(t1, EMDASH, <<"-">>), ENDASH, <<"-">>)
      t3 == ReplaceChar(t2, ELLIPSIS, <<".", ".", ".">>)
  IN  DropOutside(t3, {c \in {t3[k] : k \in 1..Len(t3)} : c \notin NonAscii})

\* lines 78-83: restrict the character class, collapse blanks and punctuation
Restrict(text) ==
  LET t1 == MapOutside(text, SafeChars)
      t2 == CollapseRuns(t1, 1, Whitespace, 1, <<" ">>)
      t3 == CollapseRuns(t2, 1, Punct, 2, <<".">>)
  IN  SpacePunct(t3, 1)

\* the characters line 86 strips from both ends of the text
EdgeChars == {" ", ".", ",", "!", "?", ";", ":", "-"}

\* line 86
TrimEdges(text) == Strip(text, EdgeChars)

\* mutant of Words: the tokens without an alphanumeric character are kept
WordsKeepAll(text) ==
  LET kept == Split(text)
  IN  [i \in 1..Len(kept) |-> Strip(kept[i], Punct)]

\* line 89: the tokens bearing an alphanumeric character, each stripped of
\* punctuation at its ends
Words(text) ==
  LET kept == SelectSeq(Split(text), HasAlnum)
  IN  [i \in 1..Len(kept) |-> Strip(kept[i], Punct)]

sanitize_text(text) ==
  IF text = <<>> \/ Strip(text, Whitespace) = <<>> THEN <<>>
  ELSE LET words == Words(TrimEdges(Restrict(Normalize(text))))
           joined == Join(words)
       IN  IF Len(words) < 2 THEN <<>>
           ELSE IF Len(joined) < MIN_TEXT_LEN \/ Len(joined) > MAX_TEXT_LEN THEN <<>>
           ELSE joined

(***************************************************************************)
(* Audio values.                                                           *)
(***************************************************************************)
\* the float sample 1.0
One == FloatDen * 32767

\* float samples a model may return: beyond the range, the boundaries,
\* zero, 0.9/32767, one half
FloatSamples == {-2 * One, -One, 0, 9, One \div 2, One, 2 * One}

\* 16-bit and 32-bit integer samples a voice may return
Int16Samples == {-32768, 0, 32767}
Int32Samples == {-70000, 1, 70000}

\* the floats of a plain list, and the frames a voice writes itself
ListSamples == {-2 * One, 0, One \div 2}
FrameSamples == {0, 32767}

\* bytes of an already encoded blob
BlobBytes == {0, 255}

\* Python's None, and an optional value
None == <<>>
Some(v) == <<v>>

\* what a synthesis call can return: None, a numpy array of a dtype, a
\* plain list of floats, or bytes
RawAudio ==
  {[kind |-> "none", s |-> <<>>]}
    \cup {[kind |-> "float32", s |-> x] : x \in SeqsUpTo(FloatSamples, MaxSamples)}
    \cup {[kind |-> "int16", s |-> x] : x \in SeqsUpTo(Int16Samples, MaxSamples)}
    \cup {[kind |-> "int32", s |-> x] : x \in SeqsUpTo(Int32Samples, MaxSamples)}
    \cup {[kind |-> "list", s |-> x] : x \in SeqsUpTo(ListSamples, MaxSamples)}
    \cup {[kind |-> "bytes", s |-> x] : x \in SeqsUpTo(BlobBytes, MaxSamples)}

NoAudio == [kind |-> "none", s |-> <<>>]

\* what tts.tts of XTTS returns: None or a list of floats
XttsSamples == {0, 9, One \div 2}
XttsAudio ==
  {NoAudio} \cup {[kind |-> "list", s |-> x] : x \in SeqsUpTo(XttsSamples, MaxSamples)}

\* number of bytes of the data chunk of a container
PayloadBytes(p) ==
  CASE p.kind = "zeros" -> 2 * p.n
    [] p.kind = "bytes" -> Len(p.s)
    [] OTHER -> 2 * Len(p.s)

\* size of the RIFF/WAVE header wave and soundfile write
WAV_HEADER == 44

\* len() of the bytes of a container
ByteLen(w) == WAV_HEADER + PayloadBytes(w.payload)

Wav(rate, payload) ==
  [channels |-> 1, sampwidth |-> 2, framerate |-> rate, payload |-> payload]

(***************************************************************************)
(* Responses.  origin names the return statement taken.                    *)
(***************************************************************************)
NoResponse == [status |-> 0, origin |-> "none", wav |-> Wav(0, [kind |-> "zeros", n |-> 0])]

\* Response(content=..., media_type="audio/wav")
AudioResponse(origin, w) == [status |-> 200, origin |-> origin, wav |-> w]

\* an exception that leaves the handler: the framework answers 500
ErrorResponse(origin) == [status |-> 500, origin |-> origin, wav |-> Wav(0, [kind |-> "zeros", n |-> 0])]

(***************************************************************************)
(* Faults an external call may raise (subclasses of Exception).            *)
(***************************************************************************)
Faults ==
  {[type |-> "RuntimeError", msg |-> m] : m \in {"index", "assert", "cuda", "other"}}
    \cup {[type |-> "IndexError", msg |-> "other"], [type |-> "ValueError", msg |-> "other"]}

(***************************************************************************)
(* State.                                                                  *)
(***************************************************************************)
VARIABLES
  server,            \* which server handles the request
  pc,                \* position of the handler
  req,               \* the request; a field is bound when it is first read
  files,             \* the files that exist
  response,          \* what the handler returned
  calls,             \* the external synthesis calls made, in order
  attempts,          \* Piper: outcome of each strategy tried, in order
  text,              \* local text
  lang,              \* XTTS local lang
  speaker,           \* XTTS local speaker
  simple_text,       \* XTTS local simple_text
  wav,               \* XTTS local wav
  generation_count,  \* XTTS global generation_count
  cache_clears,      \* number of torch.cuda.empty_cache() calls
  cuda,              \* what torch.cuda.is_available() answered last
  voice,             \* Piper global voice
  speaker_id,        \* Piper local speaker_id
  length_scale,      \* Piper local length_scale, in tenths
  phonemes,          \* Piper: what phonemize returned
  audio_data,        \* Piper local audio_data
  sanIn,             \* sanitize_text alone: the argument
  sanOut,            \* sanitize_text alone: the result
  sanAgain,          \* sanitize_text alone: the result for the result
  silence_ms,        \* create_silent_wav alone: duration_seconds, in ms
  silent_wav,        \* create_silent_wav alone: the container returned
  handlers,          \* concurrent XTTS handlers: position and locals of each
  overlapped,        \* concurrent XTTS handlers: two were at the counter at once
  start_count,       \* concurrent XTTS handlers: generation_count before them
  audio,             \* STT: the bytes of the upload
  path,              \* STT local path
  segments,          \* STT local segments: what the generator will yield
  info,              \* STT local info
  raised             \* STT: the exception that is propagating

common == <<server, req, files, response, calls, attempts, text>>
xttsVars == <<lang, speaker, simple_text, wav, generation_count, cache_clears, cuda>>
piperVars == <<voice, speaker_id, length_scale, phonemes, audio_data>>
sanVars == <<sanIn, sanOut, sanAgain>>
silVars == <<silence_ms, silent_wav>>
conVars == <<handlers, overlapped, start_count>>
sttVars == <<audio, path, segments, info, raised>>
pureVars == <<sanVars, silVars, conVars, sttVars>>
vars == <<pc, common, xttsVars, piperVars, pureVars>>

(***************************************************************************)
(* Requests and the file system.                                           *)
(***************************************************************************)
\* a request text with a character the sanitizer keeps and the retry drops
PunctuatedText == <<"a", ",", "a", " ", "a", "a", "a">>

\* request texts of the XTTS handler
Texts == SeqsUpTo(RequestAlphabet, MaxLen) \cup {PunctuatedText}

\* request values of language
Languages == {"FR", "xx"}

\* str.lower() on those
Lower(l) == IF l = "FR" THEN "fr" ELSE l

SUPPORTED_LANGUAGES ==
  {"en", "es", "fr", "de", "it", "pt", "pl", "tr", "ru", "nl", "cs", "ar",
   "zh-cn", "ja", "hu", "ko", "hi"}

\* a path is the sequence of its components; an absolute one starts at "/"
BASE_DIR == <<"/", "StreamingAssets", "TTS">>
DEFAULT_SPEAKER_WAV == BASE_DIR \o <<"speaker.wav">>
AbsVoice == <<"/", "voices", "voice.wav">>
RelVoice == <<"voice.wav">>

\* os.path.isabs, os.path.join(BASE_DIR, sp)
IsAbs(p) == p # <<>> /\ p[1] = "/"
JoinBase(p) == BASE_DIR \o p

\* a path of blanks alone, and the relative path that names the default file
BlankPath == <<" ">>
RelDefault == <<"speaker.wav">>

\* str.strip() on the request paths: only the blank one has blanks to lose
StripPath(p) == IF p = BlankPath THEN <<>> ELSE p

\* request values of speaker_wav: absent, "", blank, relative paths and an
\* absolute path
SpeakerWavs ==
  {None, Some(<<>>), Some(BlankPath), Some(RelVoice), Some(AbsVoice), Some(RelDefault)}

\* the files whose existence the handlers look at
SpeakerFiles == {DEFAULT_SPEAKER_WAV, JoinBase(RelVoice), AbsVoice}

\* os.path.isfile
IsFile(p, fs) == p \in fs

EmptyReq ==
  [text |-> <<>>, language |-> "en", speaker_wav |-> None,
   speaker |-> None, speaker_id |-> None, length_scale |-> None]

(***************************************************************************)
(* resolve_speaker_path (xtts_server.py lines 103-129).                    *)
(***************************************************************************)
\* mutant of resolve_speaker_path: the requested path is returned unseen
resolve_speaker_path_unchecked(speaker_wav, fs) ==
  LET given == speaker_wav # None /\ StripPath(speaker_wav[1]) # <<>>
      sp == IF given
            THEN (IF IsAbs(speaker_wav[1]) THEN speaker_wav[1] ELSE JoinBase(speaker_wav[1]))
            ELSE <<>>
  IN  IF given THEN Some(sp)
      ELSE IF IsFile(DEFAULT_SPEAKER_WAV, fs) THEN Some(DEFAULT_SPEAKER_WAV)
      ELSE None

resolve_speaker_path(speaker_wav, fs) ==
  LET given == speaker_wav # None /\ StripPath(speaker_wav[1]) # <<>>
      sp == IF given
            THEN (IF IsAbs(StripPath(speaker_wav[1])) THEN StripPath(speaker_wav[1])
                  ELSE JoinBase(StripPath(speaker_wav[1])))
            ELSE <<>>
  IN  IF given /\ IsFile(sp, fs) THEN Some(sp)
      ELSE IF IsFile(DEFAULT_SPEAKER_WAV, fs) THEN Some(DEFAULT_SPEAKER_WAV)
      ELSE None

(***************************************************************************)
(* The XTTS /tts handler (xtts_server.py lines 132-359).                   *)
(***************************************************************************)
XTTS_RATE == 24000
\* samples of the silence most returns write, and of the two that write more
SILENCE_SAMPLES == 2400
LONG_SILENCE_SAMPLES == 4800

\* sf.write(buf, [0.0] * n, 24000, format="WAV")
XttsSilence(n) == Wav(XTTS_RATE, [kind |-> "zeros", n |-> n])

\* sf.write(buf, wav, 24000, format="WAV"): 16-bit samples made of wav
XttsEncode(w) == Wav(XTTS_RATE, [kind |-> "pcm16_of", s |-> w.s])

\* text[:n].rsplit(' ', 1)[0]
RECURSIVE CutAtLastSpace(_)
CutAtLastSpace(s) ==
  IF \A i \in 1..Len(s) : s[i] # " " THEN s
  ELSE IF s[Len(s)] = " " THEN SubSeq(s, 1, Len(s) - 1)
  ELSE CutAtLastSpace(SubSeq(s, 1, Len(s) - 1))

XTTS_MAX_LENGTH == 200
XTTS_MIN_AFTER_CUT == 10
XTTS_MIN_ALNUM == 5
XTTS_MIN_WORDS == 2

\* lines 176-178
Truncate(t) ==
  IF Len(t) > XTTS_MAX_LENGTH THEN CutAtLastSpace(SubSeq(t, 1, XTTS_MAX_LENGTH)) ELSE t

\* lines 134-184: the reason the text is refused, or "ok"
XttsTextVerdict(raw) ==
  LET stripped == Strip(raw, Whitespace)
      san == sanitize_text(stripped)
  IN  IF stripped = <<>> THEN "empty_text"
      ELSE IF san = <<>> \/ Len(Strip(san, Whitespace)) < MIN_TEXT_LEN THEN "too_short"
      ELSE IF Len(SelectSeq(Split(san), HasAlnum)) < XTTS_MIN_WORDS THEN "few_words"
      ELSE IF Len(san) > XTTS_MAX_LENGTH
              /\ Len(Strip(Truncate(san), Whitespace)) < XTTS_MIN_AFTER_CUT
           THEN "short_after_cut"
      ELSE "ok"

Respond(r) == response' = r /\ pc' = "done"

\* the language values tried with a request text: both with the shortest
\* texts the handler accepts, the supported one with the longer texts
RequestLanguages(t) ==
  IF Len(t) <= XTTS_MIN_ALNUM + 1 THEN Languages ELSE {"FR"}

\* the audio tts.tts is let return for a request text: all of XttsAudio for
\* the shortest texts the handler accepts, none and one loud sample for the
\* longer texts
ReturnedAudio(t) ==
  IF Len(t) <= XTTS_MIN_ALNUM + 1 THEN XttsAudio
  ELSE {NoAudio, [kind |-> "list", s |-> <<One \div 2>>]}

\* the speaker_wav values tried with a request text: all with the shortest
\* texts the handler accepts, none and a relative path with the longer texts
RequestSpeakerWavs(t) ==
  IF Len(t) <= XTTS_MIN_ALNUM + 1 THEN SpeakerWavs ELSE {None, Some(RelVoice)}

XttsStart ==
  /\ server = "xtts" /\ pc = "start"
  /\ \E t \in Texts :
       LET verdict == XttsTextVerdict(t)
       IN  IF verdict # "ok"
           THEN /\ req' = [req EXCEPT !.text = t]
                /\ text' = (IF Strip(t, Whitespace) = <<>> THEN <<>>
                            ELSE sanitize_text(Strip(t, Whitespace)))
                /\ Respond(AudioResponse(verdict, XttsSilence(SILENCE_SAMPLES)))
                /\ UNCHANGED lang
           ELSE \E l \in RequestLanguages(t) :
                  /\ req' = [req EXCEPT !.text = t, !.language = l]
                  /\ text' = Truncate(sanitize_text(Strip(t, Whitespace)))
                  /\ lang' = (IF Lower(l) \in SUPPORTED_LANGUAGES THEN Lower(l) ELSE "en")
                  /\ pc' = "resolve"
                  /\ UNCHANGED response
  /\ UNCHANGED <<server, files, calls, attempts, piperVars, pureVars>>
  /\ UNCHANGED <<speaker, simple_text, wav, generation_count, cache_clears, cuda>>

\* line 186
XttsResolve ==
  /\ server = "xtts" /\ pc = "resolve"
  /\ \E sw \in RequestSpeakerWavs(req.text) :
       /\ req' = [req EXCEPT !.speaker_wav = sw]
       /\ speaker' = resolve_speaker_path(sw, files)
  /\ pc' = "check"
  /\ UNCHANGED <<server, files, response, calls, attempts, text, piperVars, pureVars>>
  /\ UNCHANGED <<lang, simple_text, wav, generation_count, cache_clears, cuda>>

\* another process creates or removes a speaker file.  Only the changes made
\* while the handler still looks at the files can be told from a different
\* starting state, so only those are taken.
FsChange ==
  /\ server = "xtts" /\ pc \in {"resolve", "check"}
  /\ \E f \in SpeakerFiles : files' = (IF f \in files THEN files \ {f} ELSE files \cup {f})
  /\ UNCHANGED <<pc, server, req, response, calls, attempts, text, xttsVars, piperVars, pureVars>>

\* mutant of XttsFinalVerdict: the alphanumeric count is not checked
XttsFinalVerdictNoAlnum(t) ==
  IF Strip(t, Whitespace) = <<>> THEN "validation"
  ELSE IF Len(SelectSeq(Split(t), HasAlnum)) < XTTS_MIN_WORDS THEN "validation"
  ELSE "ok"

\* lines 211-222: the pre-generation validation; "ok" or the ValueError raised
XttsFinalVerdict(t) ==
  IF Strip(t, Whitespace) = <<>> THEN "validation"
  ELSE IF AlnumCount(t) < XTTS_MIN_ALNUM THEN "validation"
  ELSE IF Len(SelectSeq(Split(t), HasAlnum)) < XTTS_MIN_WORDS THEN "validation"
  ELSE "ok"

\* mutant of XttsSpeakerVerdict: the second existence check is missing
XttsSpeakerVerdictNoFileCheck(sp, fs, t) ==
  IF sp = None THEN "no_speaker" ELSE XttsFinalVerdict(t)

\* lines 195-231
XttsSpeakerVerdict(sp, fs, t) ==
  IF sp = None THEN "no_speaker"
  ELSE IF ~IsFile(sp[1], fs) THEN "speaker_missing"
  ELSE XttsFinalVerdict(t)

XttsCheck ==
  /\ server = "xtts" /\ pc = "check"
  /\ LET verdict == XttsSpeakerVerdict(speaker, files, text)
     IN  IF verdict # "ok"
         THEN Respond(AudioResponse(verdict, XttsSilence(SILENCE_SAMPLES)))
         ELSE pc' = "prepare" /\ UNCHANGED response
  /\ UNCHANGED <<server, req, files, calls, attempts, text, xttsVars, piperVars, pureVars>>

(***************************************************************************)
(* except clauses: the faults modelled are RuntimeError, IndexError and    *)
(* ValueError, all direct subclasses of Exception.                         *)
(***************************************************************************)
\* mutant of Catches: except Exception taken for one more exact type
CatchesExactType(clause, f) == clause = f.type

Catches(clause, f) == clause = "Exception" \/ clause = f.type

\* line 269: the words looked for in str(e).lower()
CUDA_WORDS == {"index", "assert", "cuda"}

\* mutant of XttsInnerExcept: every RuntimeError is answered with the retry
XttsInnerExceptAnyRuntime(f) ==
  IF Catches("RuntimeError", f) THEN "retry"
  ELSE IF Catches("IndexError", f) THEN "index_error"
  ELSE IF Catches("Exception", f) THEN "model_error"
  ELSE "escape"

\* lines 267-310, the handlers around the first tts.tts call: "retry",
\* "reraise" (raise e), or the origin of the silence returned there
XttsInnerExcept(f) ==
  IF Catches("RuntimeError", f)
  THEN (IF f.msg \in CUDA_WORDS THEN "retry" ELSE "reraise")
  ELSE IF Catches("IndexError", f) THEN "index_error"
  ELSE IF Catches("Exception", f) THEN "model_error"
  ELSE "escape"

\* mutant of XttsInnerSilence: the inner handlers write the usual silence
XttsInnerSilenceShort == SILENCE_SAMPLES

\* samples of the silence written at lines 302 and 309
XttsInnerSilence == LONG_SILENCE_SAMPLES

\* lines 330-359, the handlers of the outer try
XttsOuterExcept(f) ==
  IF Catches("IndexError", f)
  THEN AudioResponse("outer_index", XttsSilence(SILENCE_SAMPLES))
  ELSE IF Catches("RuntimeError", f)
  THEN AudioResponse("outer_runtime", XttsSilence(SILENCE_SAMPLES))
  ELSE IF Catches("Exception", f)
  THEN AudioResponse("outer_exception", XttsSilence(SILENCE_SAMPLES))
  ELSE ErrorResponse("escaped")

\* line 254: the characters a text may end with
TERMINALS == {".", "!", "?"}

\* mutant of XttsFinalText: no period is appended
XttsFinalTextNoPeriod(t) == Strip(t, {".", ",", "!", "?", ";", ":", " "})

\* lines 249-255: strip punctuation from the ends, then end with a period
XttsFinalText(t) ==
  LET core == Strip(t, {".", ",", "!", "?", ";", ":", " "})
  IN  IF core = <<>> THEN <<>>
      ELSE IF core[Len(core)] \in TERMINALS THEN core ELSE Append(core, ".")

\* lines 274-277: the text of the retry
HELLO_WORLD == <<"H", "e", "l", "l", "o", " ", "w", "o", "r", "l", "d", ".">>
SIMPLE_MIN_LEN == 3
Simplify(t) ==
  LET kept == DropOutside(t, Letters \cup Digits \cup Whitespace \cup {"."})
      joined == Join(Split(kept))
  IN  IF Len(joined) < SIMPLE_MIN_LEN THEN HELLO_WORLD ELSE joined

\* every how many generations the accelerator cache is released
CLEAR_EVERY == 5

\* lines 235-257
XttsPrepare ==
  /\ server = "xtts" /\ pc = "prepare"
  /\ generation_count' = generation_count + 1
  /\ \E available \in BOOLEAN :
       /\ cuda' = available
       /\ cache_clears' = (IF available /\ (generation_count + 1) % CLEAR_EVERY = 0
                           THEN cache_clears + 1 ELSE cache_clears)
  /\ text' = XttsFinalText(text)
  /\ IF XttsFinalText(text) = <<>>
     THEN Respond(XttsOuterExcept([type |-> "ValueError", msg |-> "other"]))
     ELSE pc' = "call1" /\ UNCHANGED response
  /\ UNCHANGED <<server, req, files, calls, attempts, piperVars, pureVars>>
  /\ UNCHANGED <<lang, speaker, simple_text, wav>>

\* one tts.tts(text=..., speaker_wav=..., language=...) call and the fault
\* it raised, if any
TtsCall(t, fault) ==
  [fn |-> "tts.tts", text |-> t, speaker |-> speaker[1], language |-> lang, fault |-> fault]

\* lines 260-310: the first tts.tts call and the handlers around it
XttsCall1 ==
  /\ server = "xtts" /\ pc = "call1"
  /\ \/ \E a \in ReturnedAudio(req.text) :
          /\ calls' = Append(calls, TtsCall(text, None))
          /\ wav' = a /\ pc' = "encode"
          /\ UNCHANGED <<response, simple_text, cache_clears>>
     \/ \E f \in Faults :
          LET h == XttsInnerExcept(f)
          IN  /\ calls' = Append(calls, TtsCall(text, Some(f)))
              /\ IF h = "retry"
                 THEN /\ simple_text' = Simplify(text)
                      /\ cache_clears' = (IF cuda THEN cache_clears + 1 ELSE cache_clears)
                      /\ pc' = "retry"
                      /\ UNCHANGED <<response, wav>>
                 ELSE /\ Respond(IF h = "reraise" THEN XttsOuterExcept(f)
                                 ELSE IF h = "escape" THEN ErrorResponse("escaped")
                                 ELSE AudioResponse(h, XttsSilence(XttsInnerSilence)))
                      /\ UNCHANGED <<simple_text, wav, cache_clears>>
  /\ UNCHANGED <<server, req, files, attempts, text, piperVars, pureVars>>
  /\ UNCHANGED <<lang, speaker, generation_count, cuda>>

\* lines 285-290: the retry; a fault raised inside the except clause is not
\* seen by its sibling clauses and reaches the outer try
XttsRetry ==
  /\ server = "xtts" /\ pc = "retry"
  /\ \/ \E a \in ReturnedAudio(req.text) :
          /\ calls' = Append(calls, TtsCall(simple_text, None))
          /\ wav' = a /\ pc' = "encode" /\ UNCHANGED response
     \/ \E f \in Faults :
          /\ calls' = Append(calls, TtsCall(simple_text, Some(f)))
          /\ Respond(XttsOuterExcept(f)) /\ UNCHANGED wav
  /\ UNCHANGED <<server, req, files, attempts, text, piperVars, pureVars>>
  /\ UNCHANGED <<lang, speaker, simple_text, generation_count, cache_clears, cuda>>

\* line 312: wav is None or len(wav) == 0
XttsWavEmpty(w) == w.kind = "none" \/ Len(w.s) = 0

\* lines 319-320: max(abs(sample) for sample in wav) < 0.001
Abs(x) == IF x < 0 THEN -x ELSE x
QUIET_PER_MILLE == 1
XttsQuiet(w) == \A i \in 1..Len(w.s) : 1000 * Abs(w.s[i]) < QUIET_PER_MILLE * One

\* mutant of XttsResult: quiet audio is answered with silence
XttsResultQuietIsSilence(w) ==
  IF XttsWavEmpty(w) \/ XttsQuiet(w)
  THEN AudioResponse("empty_audio", XttsSilence(SILENCE_SAMPLES))
  ELSE AudioResponse("success", XttsEncode(w))

\* lines 312-328: silence for no audio; quiet audio is only reported on the
\* console (lines 320-322) and is encoded like any other
XttsResult(w) ==
  IF XttsWavEmpty(w) THEN AudioResponse("empty_audio", XttsSilence(SILENCE_SAMPLES))
  ELSE IF XttsQuiet(w) THEN AudioResponse("success", XttsEncode(w))
  ELSE AudioResponse("success", XttsEncode(w))

\* lines 312-328
XttsEncodeStep ==
  /\ server = "xtts" /\ pc = "encode"
  /\ Respond(XttsResult(wav))
  /\ UNCHANGED <<server, req, files, calls, attempts, text, xttsVars, piperVars, pureVars>>

(***************************************************************************)
(* The Piper server (piper_server.py).                                     *)
(***************************************************************************)
\* the global voice: not loaded, or a PiperVoice with or without the
\* phonemes_to_ids method and with its configured sample rate
NoVoice == [loaded |-> FALSE, has_phonemes_to_ids |-> FALSE, sample_rate |-> 0]
Voices ==
  {NoVoice,
   [loaded |-> TRUE, has_phonemes_to_ids |-> TRUE, sample_rate |-> 22050],
   [loaded |-> TRUE, has_phonemes_to_ids |-> TRUE, sample_rate |-> 16000],
   [loaded |-> TRUE, has_phonemes_to_ids |-> FALSE, sample_rate |-> 22050]}

\* request texts of the Piper handler
PiperTexts == SeqsUpTo(RequestAlphabet, PiperMaxLen)

\* request values of speaker_id, speaker and length_scale (in tenths)
\* as pairs <<speaker_id, speaker>>
SpeakerInputs ==
  {<<None, None>>, <<Some(-5), None>>, <<Some(5000), Some(<<"1", "2">>)>>,
   <<None, Some(<<"1", "2">>)>>, <<None, Some(<<"5", "0", "0", "0">>)>>,
   <<None, Some(<<"a", "b", "c">>)>>, <<Some(7), Some(<<"a", "b", "c">>)>>}
\* length_scale varies only in the requests that name no speaker
LengthScales == {None, Some(50)}

DigitValue(c) ==
  CASE c = "0" -> 0 [] c = "1" -> 1 [] c = "2" -> 2 [] c = "3" -> 3 [] c = "4" -> 4
    [] c = "5" -> 5 [] c = "6" -> 6 [] c = "7" -> 7 [] c = "8" -> 8 [] c = "9" -> 9

RECURSIVE DigitsValue(_)
DigitsValue(ds) ==
  IF ds = <<>> THEN 0
  ELSE 10 * DigitsValue(SubSeq(ds, 1, Len(ds) - 1)) + DigitValue(ds[Len(ds)])

\* int(s): Some(value), or None for the ValueError
PyInt(s) ==
  LET t == Strip(s, Whitespace)
      signed == t # <<>> /\ t[1] \in {"-", "+"}
      body == IF signed THEN Tail(t) ELSE t
  IN  IF body = <<>> \/ \E i \in 1..Len(body) : body[i] \notin Digits THEN None
      ELSE Some(IF signed /\ t[1] = "-" THEN -DigitsValue(body) ELSE DigitsValue(body))

Min(a, b) == IF a < b THEN a ELSE b
Max(a, b) == IF a > b THEN a ELSE b

PIPER_MAX_TEXT == 2000
PIPER_MIN_TEXT == 2
DEFAULT_SPEAKER_ID == 0
MAX_SPEAKER_ID == 903
DEFAULT_LENGTH_SCALE == 10
MIN_LENGTH_SCALE == 1
MAX_LENGTH_SCALE == 30

\* mutant of ResolveSpeakerId: the clamp of line 187 is missing
ResolveSpeakerIdNoClamp(sid, spk) ==
  LET chosen == IF sid # None THEN sid
                ELSE IF spk # None THEN PyInt(spk[1])
                ELSE None
  IN  IF chosen = None THEN DEFAULT_SPEAKER_ID ELSE chosen[1]

\* mutant of ResolveSpeakerId: the speaker string is looked at first
ResolveSpeakerIdStringFirst(sid, spk) ==
  LET parsed == IF spk # None THEN PyInt(spk[1]) ELSE None
      chosen == IF parsed # None THEN parsed ELSE sid
      id == IF chosen = None THEN DEFAULT_SPEAKER_ID ELSE chosen[1]
  IN  Max(0, Min(MAX_SPEAKER_ID, id))

\* lines 171-187
ResolveSpeakerId(sid, spk) ==
  LET chosen == IF sid # None THEN sid
                ELSE IF spk # None THEN PyInt(spk[1])
                ELSE None
      id == IF chosen = None THEN DEFAULT_SPEAKER_ID ELSE chosen[1]
  IN  Max(0, Min(MAX_SPEAKER_ID, id))

\* lines 190-191
ResolveLengthScale(ls) ==
  Max(MIN_LENGTH_SCALE, Min(MAX_LENGTH_SCALE, IF ls = None THEN DEFAULT_LENGTH_SCALE ELSE ls[1]))

\* create_silent_wav (lines 378-391), the duration in milliseconds
PIPER_SILENCE_RATE == 22050
DEFAULT_SILENCE_MS == 100

\* mutant of create_silent_wav: samples = int(duration_seconds), the rate
\* forgotten
create_silent_wav_no_rate(duration_ms) ==
  Wav(PIPER_SILENCE_RATE, [kind |-> "zeros", n |-> duration_ms \div 1000])

create_silent_wav(duration_ms) ==
  Wav(PIPER_SILENCE_RATE,
      [kind |-> "zeros", n |-> (PIPER_SILENCE_RATE * duration_ms) \div 1000])

PiperSilence(origin) == AudioResponse(origin, create_silent_wav(DEFAULT_SILENCE_MS))

\* lines 164-169 and 207-215: the text after strip and cut
PiperText(t) ==
  LET stripped == Strip(t, Whitespace)
  IN  IF Len(stripped) > PIPER_MAX_TEXT THEN SubSeq(stripped, 1, PIPER_MAX_TEXT) ELSE stripped

\* mutant of PiperTextVerdict: the length check is missing
PiperTextVerdictNoMin(t) == IF t = <<>> THEN "empty_text" ELSE "ok"

\* lines 207-215: the reason the text is refused, or "ok"
PiperTextVerdict(t) ==
  IF t = <<>> THEN "empty_text"
  ELSE IF Len(Strip(t, Whitespace)) < PIPER_MIN_TEXT THEN "too_short"
  ELSE "ok"

\* the speaker values tried with a request text: all with the texts of the
\* least length the handler accepts, none with the longer texts
RequestSpeakers(t) ==
  IF Len(t) <= PIPER_MIN_TEXT THEN SpeakerInputs ELSE {<<None, None>>}

\* lines 160-215
PiperStart ==
  /\ server = "piper" /\ pc = "start"
  /\ IF ~voice.loaded
     THEN /\ Respond(PiperSilence("voice_not_loaded"))
          /\ UNCHANGED <<req, text, speaker_id, length_scale>>
     ELSE \E t \in PiperTexts, configFault \in BOOLEAN :
          \E si \in RequestSpeakers(t) :
          \E ls \in (IF si = <<None, None>> THEN LengthScales ELSE {None}) :
            /\ req' = [req EXCEPT !.text = t, !.speaker_id = si[1],
                                  !.speaker = si[2], !.length_scale = ls]
            /\ text' = Strip(PiperText(t), Whitespace)
            /\ speaker_id' = ResolveSpeakerId(si[1], si[2])
            /\ length_scale' = ResolveLengthScale(ls)
            /\ IF configFault THEN Respond(PiperSilence("config_error"))
               ELSE IF PiperTextVerdict(PiperText(t)) # "ok"
               THEN Respond(PiperSilence(PiperTextVerdict(PiperText(t))))
               ELSE pc' = "phonemize" /\ UNCHANGED response
  /\ UNCHANGED <<server, files, calls, attempts, voice, phonemes, audio_data>>
  /\ UNCHANGED <<xttsVars, pureVars>>

\* the strategies in the order the handler lists them, and the position
\* each starts at
STRATEGIES == <<"manual", "synthesize_wav", "synthesize">>
StrategyStart(k) ==
  CASE k = 1 -> "phonemize" [] k = 2 -> "synthesize_wav" [] k = 3 -> "synthesize"
    [] OTHER -> "exhausted"

\* mutant of AfterFailure: the last strategy is given a second try
AfterFailureOnceMore(k) ==
  IF k = 3 /\ Len(attempts) < 3 THEN StrategyStart(3) ELSE StrategyStart(k + 1)

\* mutant of AfterFailure: the synthesize_wav block is jumped over
AfterFailureSkip(k) == StrategyStart(IF k = 1 THEN 3 ELSE k + 1)

\* what follows strategy k when it did not return: the next one (lines
\* 300-306, 338-343), and after the last the silence of lines 367-369
AfterFailure(k) == StrategyStart(k + 1)

\* the record of one strategy's attempt: how it ended and, when it got as
\* far as the validation, the container validated
NoWav == Wav(0, [kind |-> "zeros", n |-> 0])
AttemptOut(k, result, w) ==
  Append(attempts, [strategy |-> STRATEGIES[k], result |-> result, out |-> w])
Attempt(k, result) == AttemptOut(k, result, NoWav)

\* a fault f raised in strategy k: the except Exception of the strategy
\* (lines 300, 338, 362), else the one of the outer try (line 371)
PiperFault(k, f) ==
  IF Catches("Exception", f)
  THEN /\ pc' = AfterFailure(k) /\ attempts' = Attempt(k, "failed") /\ UNCHANGED response
  ELSE IF Catches("Exception", f)
  THEN /\ Respond(PiperSilence("critical_error")) /\ attempts' = Attempt(k, "failed")
  ELSE /\ Respond(ErrorResponse("escaped")) /\ attempts' = Attempt(k, "failed")

\* SynthesisConfig(speaker_id=..., length_scale=..., ...) of lines 197-202
SynConfig == [speaker_id |-> speaker_id, length_scale |-> length_scale]

\* a call of a method of voice, with syn_config=syn_config or without
PiperCall(fn, withConfig) ==
  [fn |-> fn, text |-> text, syn_config |-> IF withConfig THEN Some(SynConfig) ELSE None]

\* lines 222-225 and 297-298
PiperPhonemize ==
  /\ server = "piper" /\ pc = "phonemize"
  /\ calls' = Append(calls, PiperCall("phonemize", FALSE))
  /\ \/ \E f \in Faults : PiperFault(1, f) /\ UNCHANGED phonemes
     \/ \E ph \in {"nested", "flat"} :
          /\ phonemes' = ph
          /\ IF voice.has_phonemes_to_ids
             THEN pc' = "phonemes_to_ids" /\ UNCHANGED <<attempts, response>>
             ELSE pc' = AfterFailure(1) /\ attempts' = Attempt(1, "skipped")
                  /\ UNCHANGED response
  /\ UNCHANGED <<server, req, files, text, voice, speaker_id, length_scale, audio_data>>
  /\ UNCHANGED <<xttsVars, pureVars>>

\* lines 227-233
PiperPhonemesToIds ==
  /\ server = "piper" /\ pc = "phonemes_to_ids"
  /\ phonemes' = "flat"
  /\ calls' = Append(calls, PiperCall("phonemes_to_ids", FALSE))
  /\ \/ \E f \in Faults : PiperFault(1, f)
     \/ pc' = "audio1" /\ UNCHANGED <<attempts, response>>
  /\ UNCHANGED <<server, req, files, text, voice, speaker_id, length_scale, audio_data>>
  /\ UNCHANGED <<xttsVars, pureVars>>

\* lines 236-238: phoneme_ids_to_audio with the synthesis config
PiperAudio1 ==
  /\ server = "piper" /\ pc = "audio1"
  /\ calls' = Append(calls, PiperCall("phoneme_ids_to_audio", TRUE))
  /\ \/ \E a \in RawAudio :
          audio_data' = a /\ pc' = "encode" /\ UNCHANGED <<attempts, response>>
     \/ \E f \in Faults :
          /\ UNCHANGED audio_data
          /\ IF Catches("Exception", f)
             THEN pc' = "audio2" /\ UNCHANGED <<attempts, response>>
             ELSE PiperFault(1, f)
  /\ UNCHANGED <<server, req, files, text>>
  /\ UNCHANGED <<voice, speaker_id, length_scale, phonemes, xttsVars, pureVars>>

\* lines 239-242: phoneme_ids_to_audio without it
PiperAudio2 ==
  /\ server = "piper" /\ pc = "audio2"
  /\ calls' = Append(calls, PiperCall("phoneme_ids_to_audio", FALSE))
  /\ \/ \E a \in RawAudio :
          audio_data' = a /\ pc' = "encode" /\ UNCHANGED <<attempts, response>>
     \/ \E f \in Faults :
          IF Catches("Exception", f)
          THEN audio_data' = NoAudio /\ pc' = "encode" /\ UNCHANGED <<attempts, response>>
          ELSE PiperFault(1, f) /\ UNCHANGED audio_data
  /\ UNCHANGED <<server, req, files, text>>
  /\ UNCHANGED <<voice, speaker_id, length_scale, phonemes, xttsVars, pureVars>>

(***************************************************************************)
(* The encoding of the manual strategy's audio (lines 244-296).            *)
(***************************************************************************)
\* mutant of Clip: the samples are not clamped
ClipNot(n) == n

\* np.clip(x, -1.0, 1.0) on a float sample
Clip(n) == Max(-One, Min(One, n))

\* ndarray.astype(np.float32) followed by np.clip on an integer sample:
\* clipping the integer first gives the same float
ClipInt(k) == Max(-1, Min(1, k)) * One

\* the conversion to a C integer of astype: toward zero
TruncDiv(n, d) == IF n >= 0 THEN n \div d ELSE -((-n) \div d)

\* the 16 bits astype(np.int16) keeps of an integer
AsInt16(x) == ((x + 32768) % 65536) - 32768

\* (audio_clamped * 32767).astype(np.int16) for one clamped sample
ScaleToInt16(n) == AsInt16(TruncDiv(n, FloatDen))

\* lines 263-264, 272-273, 279-280 for one float sample
FloatToInt16(n) == ScaleToInt16(Clip(n))

\* mutant of EncodePayload: only float and int16 arrays are looked at
EncodePayloadPassThrough(a) ==
  CASE a.kind = "float32" ->
         [kind |-> "samples", s |-> [i \in 1..Len(a.s) |-> FloatToInt16(a.s[i])]]
    [] a.kind = "int16" -> [kind |-> "samples", s |-> a.s]
    [] OTHER -> [kind |-> "bytes", s |-> a.s]

\* lines 256-283: the bytes given to writeframes
EncodePayload(a) ==
  CASE a.kind \in {"float32", "list"} ->
         [kind |-> "samples", s |-> [i \in 1..Len(a.s) |-> FloatToInt16(a.s[i])]]
    [] a.kind = "int16" -> [kind |-> "samples", s |-> a.s]
    [] a.kind = "int32" ->
         [kind |-> "samples", s |-> [i \in 1..Len(a.s) |-> ScaleToInt16(ClipInt(a.s[i]))]]
    [] OTHER -> [kind |-> "bytes", s |-> a.s]

\* lines 249-287
EncodeManual(a, rate) == Wav(rate, EncodePayload(a))

\* line 245
AudioPresent(a) == a.kind # "none" /\ Len(a.s) > 0

\* mutant of ValidWav: a container of exactly the header passes
ValidWavHeaderOnly(w) == ByteLen(w) >= WAV_HEADER

\* lines 290, 329, 359: the container holds more than its header
ValidWav(w) == ByteLen(w) > WAV_HEADER

\* mutant of Succeed: the return statement is missing, the handler goes on
SucceedNoReturn(k, w) ==
  /\ response' = AudioResponse(STRATEGIES[k], w)
  /\ pc' = StrategyStart(k + 1)
  /\ attempts' = AttemptOut(k, "success", w)

\* a strategy produced a valid container: it is returned
Succeed(k, w) ==
  /\ Respond(AudioResponse(STRATEGIES[k], w))
  /\ attempts' = AttemptOut(k, "success", w)

\* lines 244-296
PiperEncode ==
  /\ server = "piper" /\ pc = "encode"
  /\ IF ~AudioPresent(audio_data)
     THEN pc' = AfterFailure(1) /\ attempts' = Attempt(1, "empty") /\ UNCHANGED response
     ELSE IF ValidWav(EncodeManual(audio_data, voice.sample_rate))
     THEN Succeed(1, EncodeManual(audio_data, voice.sample_rate))
     ELSE /\ pc' = AfterFailure(1) /\ UNCHANGED response
          /\ attempts' = AttemptOut(1, "invalid", EncodeManual(audio_data, voice.sample_rate))
  /\ UNCHANGED <<server, req, files, calls, text, piperVars, xttsVars, pureVars>>

\* the frames synthesize_wav and synthesize write into the wave file
WrittenFrames == SeqsUpTo(FrameSamples, MaxSamples)

\* the file tempfile.NamedTemporaryFile(suffix=".wav", delete=False) creates
TEMP_PATH == <<"/", "tmp", "tmpfile.wav">>

\* lines 306-341; os.unlink is reached only when synthesize_wav returned
PiperSynthesizeWav ==
  /\ server = "piper" /\ pc = "synthesize_wav"
  /\ calls' = Append(calls, PiperCall("synthesize_wav", TRUE))
  /\ \/ \E fr \in WrittenFrames :
          LET w == Wav(voice.sample_rate, [kind |-> "samples", s |-> fr])
          IN  /\ files' = files \ {TEMP_PATH}
              /\ IF ValidWav(w) THEN Succeed(2, w)
                 ELSE pc' = AfterFailure(2) /\ attempts' = AttemptOut(2, "invalid", w)
                      /\ UNCHANGED response
     \/ \E f \in Faults : PiperFault(2, f) /\ files' = files \cup {TEMP_PATH}
  /\ UNCHANGED <<server, req, text, piperVars, xttsVars, pureVars>>

\* lines 343-365
PiperSynthesize ==
  /\ server = "piper" /\ pc = "synthesize"
  /\ calls' = Append(calls, PiperCall("synthesize", TRUE))
  /\ \/ \E fr \in WrittenFrames :
          LET w == Wav(voice.sample_rate, [kind |-> "samples", s |-> fr])
          IN  IF ValidWav(w) THEN Succeed(3, w)
              ELSE pc' = AfterFailure(3) /\ attempts' = AttemptOut(3, "invalid", w)
                   /\ UNCHANGED response
     \/ \E f \in Faults : PiperFault(3, f)
  /\ UNCHANGED <<server, req, files, text, piperVars, xttsVars, pureVars>>

\* lines 367-369
PiperExhausted ==
  /\ server = "piper" /\ pc = "exhausted"
  /\ Respond(PiperSilence("all_failed"))
  /\ UNCHANGED <<server, req, files, calls, attempts, text, piperVars, xttsVars, pureVars>>

\* no /stt handler is running
NoStt == audio = <<>> /\ path = None /\ segments = <<>> /\ info = None /\ raised = None

\* no concurrent handlers are running
NoHandlers == handlers = <<>> /\ overlapped = FALSE /\ start_count = 0

(***************************************************************************)
(* The servers: one request to one of them.                                *)
(***************************************************************************)
Init ==
  /\ server \in {"piper", "xtts"}
  /\ pc = "start"
  /\ req = EmptyReq
  /\ files = (IF server = "xtts" THEN SpeakerFiles ELSE {})
  /\ response = NoResponse
  /\ calls = <<>>
  /\ attempts = <<>>
  /\ text = <<>>
  /\ lang = "en"
  /\ speaker = None
  /\ simple_text = <<>>
  /\ wav = NoAudio
  /\ generation_count = 0
  /\ cache_clears = 0
  /\ cuda = FALSE
  /\ voice \in (IF server = "piper" THEN Voices ELSE {NoVoice})
  /\ speaker_id = DEFAULT_SPEAKER_ID
  /\ length_scale = DEFAULT_LENGTH_SCALE
  /\ phonemes = "none"
  /\ audio_data = NoAudio
  /\ sanIn = <<>>
  /\ sanOut = <<>>
  /\ sanAgain = <<>>
  /\ silence_ms = DEFAULT_SILENCE_MS
  /\ silent_wav = NoWav
  /\ NoHandlers
  /\ NoStt

Next ==
  \/ XttsStart
  \/ XttsResolve
  \/ FsChange
  \/ XttsCheck
  \/ XttsPrepare
  \/ XttsCall1
  \/ XttsRetry
  \/ XttsEncodeStep
  \/ PiperStart
  \/ PiperPhonemize
  \/ PiperPhonemesToIds
  \/ PiperAudio1
  \/ PiperAudio2
  \/ PiperEncode
  \/ PiperSynthesizeWav
  \/ PiperSynthesize
  \/ PiperExhausted

Spec == Init /\ [][Next]_vars

(***************************************************************************)
(* sanitize_text alone: applied to a text, then to its own result.         *)
(***************************************************************************)
SanInputs == SeqsUpTo(Alphabet, MaxLen) \cup SeqsUpTo(SanAlphabet, SanMaxLen)

SanInit ==
  /\ server = "none"
  /\ pc = "sanitize"
  /\ sanIn \in SanInputs
  /\ sanOut = <<>>
  /\ sanAgain = <<>>
  /\ silence_ms = DEFAULT_SILENCE_MS /\ silent_wav = NoWav
  /\ NoHandlers
  /\ NoStt
  /\ req = EmptyReq /\ files = {} /\ response = NoResponse
  /\ calls = <<>> /\ attempts = <<>> /\ text = <<>>
  /\ lang = "en" /\ speaker = None /\ simple_text = <<>> /\ wav = NoAudio
  /\ generation_count = 0 /\ cache_clears = 0 /\ cuda = FALSE
  /\ voice = NoVoice /\ speaker_id = DEFAULT_SPEAKER_ID
  /\ length_scale = DEFAULT_LENGTH_SCALE /\ phonemes = "none" /\ audio_data = NoAudio

SanApply ==
  /\ pc = "sanitize"
  /\ sanOut' = sanitize_text(sanIn)
  /\ pc' = "sanitize_again"
  /\ UNCHANGED <<sanIn, sanAgain, silVars, conVars, sttVars, common, xttsVars, piperVars>>

SanReapply ==
  /\ pc = "sanitize_again"
  /\ sanAgain' = sanitize_text(sanOut)
  /\ pc' = "sanitized"
  /\ UNCHANGED <<sanIn, sanOut, silVars, conVars, sttVars, common, xttsVars, piperVars>>

SanNext == SanApply \/ SanReapply

SanSpec == SanInit /\ [][SanNext]_vars

(***************************************************************************)
(* create_silent_wav alone: applied to a duration.  Durations are whole    *)
(* milliseconds; up to MaxDurationMs + 1 the float product                 *)
(* sample_rate * duration_seconds truncates and rounds as the exact        *)
(* product does.                                                           *)
(***************************************************************************)
Durations == 0..MaxDurationMs

SilenceInit ==
  /\ server = "none"
  /\ pc = "silence"
  /\ silence_ms \in Durations
  /\ silent_wav = NoWav
  /\ NoHandlers
  /\ NoStt
  /\ sanIn = <<>> /\ sanOut = <<>> /\ sanAgain = <<>>
  /\ req = EmptyReq /\ files = {} /\ response = NoResponse
  /\ calls = <<>> /\ attempts = <<>> /\ text = <<>>
  /\ lang = "en" /\ speaker = None /\ simple_text = <<>> /\ wav = NoAudio
  /\ generation_count = 0 /\ cache_clears = 0 /\ cuda = FALSE
  /\ voice = NoVoice /\ speaker_id = DEFAULT_SPEAKER_ID
  /\ length_scale = DEFAULT_LENGTH_SCALE /\ phonemes = "none" /\ audio_data = NoAudio

SilenceApply ==
  /\ pc = "silence"
  /\ silent_wav' = create_silent_wav(silence_ms)
  /\ pc' = "silenced"
  /\ UNCHANGED <<silence_ms, sanVars, conVars, sttVars, common, xttsVars, piperVars>>

SilenceNext == SilenceApply

SilenceSpec == SilenceInit /\ [][SilenceNext]_vars

(***************************************************************************)
(* Concurrent XTTS handlers.  tts_endpoint is a plain def, which the       *)
(* framework runs in a pool of threads; generation_count is a module       *)
(* global (xtts_server.py lines 33-34) that each handler reads, writes     *)
(* and reads again (lines 235-245) without a lock.  Of each handler only   *)
(* the validation verdict and those three accesses are kept.               *)
(***************************************************************************)
HandlerIds == 1..MaxHandlers

\* values of generation_count left by earlier requests
StartCounts == {0, 3, 4}

NewHandler == [pc |-> "validate", seen |-> 0, released |-> FALSE]

\* a handler between its read of the counter and its test of it
AtCounter(h) == handlers[h].pc \in {"store", "test"}

\* mutant of NextCount: the counter is advanced by two
NextCountTwice(seen) == seen + 2

\* line 236: generation_count += 1, the value stored for the value read
NextCount(seen) == seen + 1

ConInit ==
  /\ server = "xtts"
  /\ pc = "serving"
  /\ handlers = [h \in HandlerIds |-> NewHandler]
  /\ overlapped = FALSE
  /\ start_count \in StartCounts
  /\ generation_count = start_count
  /\ cache_clears = 0
  /\ cuda \in BOOLEAN
  /\ NoStt
  /\ sanIn = <<>> /\ sanOut = <<>> /\ sanAgain = <<>>
  /\ silence_ms = DEFAULT_SILENCE_MS /\ silent_wav = NoWav
  /\ req = EmptyReq /\ files = {} /\ response = NoResponse
  /\ calls = <<>> /\ attempts = <<>> /\ text = <<>>
  /\ lang = "en" /\ speaker = None /\ simple_text = <<>> /\ wav = NoAudio
  /\ voice = NoVoice /\ speaker_id = DEFAULT_SPEAKER_ID
  /\ length_scale = DEFAULT_LENGTH_SCALE /\ phonemes = "none" /\ audio_data = NoAudio

ConUnchanged ==
  UNCHANGED <<pc, common, lang, speaker, simple_text, wav, cuda, piperVars,
              sanVars, silVars, sttVars, start_count>>

\* lines 134-231: the request is refused with silence, or passes
ConValidate(h) ==
  /\ pc = "serving" /\ handlers[h].pc = "validate"
  /\ \E passes \in BOOLEAN :
       handlers' = [handlers EXCEPT ![h].pc = IF passes THEN "load" ELSE "rejected"]
  /\ UNCHANGED <<generation_count, cache_clears, overlapped>>
  /\ ConUnchanged

\* line 236, the read of generation_count += 1
ConLoad(h) ==
  /\ pc = "serving" /\ handlers[h].pc = "load"
  /\ handlers' = [handlers EXCEPT ![h].pc = "store", ![h].seen = generation_count]
  /\ overlapped' = (overlapped \/ \E o \in HandlerIds \ {h} : AtCounter(o))
  /\ UNCHANGED <<generation_count, cache_clears>>
  /\ ConUnchanged

\* line 236, the write of generation_count += 1
ConStore(h) ==
  /\ pc = "serving" /\ handlers[h].pc = "store"
  /\ generation_count' = NextCount(handlers[h].seen)
  /\ handlers' = [handlers EXCEPT ![h].pc = "test"]
  /\ UNCHANGED <<cache_clears, overlapped>>
  /\ ConUnchanged

\* lines 241-245: the global is read again for the test
ConTest(h) ==
  /\ pc = "serving" /\ handlers[h].pc = "test"
  /\ LET release == cuda /\ generation_count % CLEAR_EVERY = 0
     IN  /\ cache_clears' = (IF release THEN cache_clears + 1 ELSE cache_clears)
         /\ handlers' = [handlers EXCEPT ![h].pc = "done", ![h].released = release]
  /\ UNCHANGED <<generation_count, overlapped>>
  /\ ConUnchanged

ConNext ==
  \/ \E h \in HandlerIds : ConValidate(h)
  \/ \E h \in HandlerIds : ConLoad(h)
  \/ \E h \in HandlerIds : ConStore(h)
  \/ \E h \in HandlerIds : ConTest(h)

ConSpec == ConInit /\ [][ConNext]_vars

(***************************************************************************)
(* The STT server (whisper_server.py): one upload to /stt.                 *)
(***************************************************************************)
\* the file tempfile.NamedTemporaryFile(delete=False, suffix=".wav") creates
STT_TEMP_PATH == <<"/", "tmp", "upload.wav">>

\* the bytes of an upload
Uploads == SeqsUpTo({0, 255}, 1)

\* seg.text of a segment
SegmentTexts == SeqsUpTo({"a", " "}, 2)

\* the faults model.transcribe and its generator raise
SttFaults ==
  {[type |-> "RuntimeError", msg |-> "cuda"], [type |-> "ValueError", msg |-> "other"]}

\* what the generator does when asked for its next segment: it yields one, or
\* it raises and is finished
Yields ==
  {[kind |-> "segment", text |-> t] : t \in SegmentTexts}
    \cup {[kind |-> "raise", fault |-> f] : f \in SttFaults}

\* the generators model.transcribe returns
Generators ==
  {g \in SeqsUpTo(Yields, MaxSegments) :
     \A i \in 1..Len(g) : g[i].kind = "raise" => i = Len(g)}

\* info.language
SttLanguages == {"en", "fr"}

MODEL_SIZE == "small"
DEVICE == "cuda"

\* the first fault the iteration over g meets, if any
GeneratorFault(g) ==
  IF g # <<>> /\ g[Len(g)].kind = "raise" THEN Some(g[Len(g)].fault) ELSE None

\* line 45: " ".join(seg.text.strip() for seg in segments).strip()
JoinSegments(g) ==
  Strip(Join([i \in 1..Len(g) |-> Strip(g[i].text, Whitespace)]), Whitespace)

\* lines 48-54
JsonResponse(t, i) ==
  [status |-> 200, origin |-> "stt",
   body |-> [text |-> t, lang |-> i.language, model |-> MODEL_SIZE, device |-> DEVICE]]

\* mutant of RemoveUpload: the file is removed on the return path only
RemoveUploadOnReturn(fs, p, r) == IF r = None THEN fs \ {p} ELSE fs

\* lines 55-57, the finally clause: os.remove(path) if the path exists
RemoveUpload(fs, p, r) == IF p \in fs THEN fs \ {p} ELSE fs

SttInit ==
  /\ server = "stt"
  /\ pc = "start"
  /\ NoStt
  /\ NoHandlers
  /\ sanIn = <<>> /\ sanOut = <<>> /\ sanAgain = <<>>
  /\ silence_ms = DEFAULT_SILENCE_MS /\ silent_wav = NoWav
  /\ req = EmptyReq /\ files = {} /\ response = NoResponse
  /\ calls = <<>> /\ attempts = <<>> /\ text = <<>>
  /\ lang = "en" /\ speaker = None /\ simple_text = <<>> /\ wav = NoAudio
  /\ generation_count = 0 /\ cache_clears = 0 /\ cuda = FALSE
  /\ voice = NoVoice /\ speaker_id = DEFAULT_SPEAKER_ID
  /\ length_scale = DEFAULT_LENGTH_SCALE /\ phonemes = "none" /\ audio_data = NoAudio

SttUnchanged ==
  UNCHANGED <<server, req, attempts, xttsVars, piperVars, sanVars, silVars, conVars>>

\* lines 28-30: the upload is written to the temporary file
SttSave ==
  /\ server = "stt" /\ pc = "start"
  /\ \E a \in Uploads : audio' = a
  /\ path' = Some(STT_TEMP_PATH)
  /\ files' = files \cup {STT_TEMP_PATH}
  /\ pc' = "transcribe"
  /\ UNCHANGED <<response, calls, text, segments, info, raised>>
  /\ SttUnchanged

\* another process removes the temporary file while the handler runs
SttVanish ==
  /\ server = "stt" /\ pc \in {"transcribe", "join"}
  /\ path # None /\ path[1] \in files
  /\ files' = files \ {path[1]}
  /\ UNCHANGED <<pc, response, calls, text, sttVars>>
  /\ SttUnchanged

\* lines 33-43: model.transcribe returns a generator and info, or raises
SttTranscribe ==
  /\ server = "stt" /\ pc = "transcribe"
  /\ calls' = Append(calls, [fn |-> "transcribe", path |-> path[1]])
  /\ \/ \E g \in Generators, l \in SttLanguages :
          /\ segments' = g /\ info' = Some([language |-> l])
          /\ pc' = "join" /\ UNCHANGED raised
     \/ \E f \in SttFaults :
          /\ raised' = Some(f) /\ pc' = "finally"
          /\ UNCHANGED <<segments, info>>
  /\ UNCHANGED <<files, response, text, audio, path>>
  /\ SttUnchanged

\* lines 45-54: the generator is run to its end; the response is built
\* unless it raised
SttJoin ==
  /\ server = "stt" /\ pc = "join"
  /\ IF GeneratorFault(segments) # None
     THEN raised' = GeneratorFault(segments) /\ UNCHANGED <<text, response>>
     ELSE /\ text' = JoinSegments(segments)
          /\ response' = JsonResponse(JoinSegments(segments), info[1])
          /\ UNCHANGED raised
  /\ pc' = "finally"
  /\ UNCHANGED <<files, calls, audio, path, segments, info>>
  /\ SttUnchanged

\* an exception that leaves the handler: the framework answers 500
SttErrorResponse == [status |-> 500, origin |-> "stt", body |-> [text |-> <<>>]]

\* lines 55-57: the finally clause, then the return or the exception
SttFinally ==
  /\ server = "stt" /\ pc = "finally"
  /\ files' = RemoveUpload(files, path[1], raised)
  /\ response' = (IF raised # None THEN SttErrorResponse ELSE response)
  /\ pc' = "done"
  /\ UNCHANGED <<calls, text, sttVars>>
  /\ SttUnchanged

SttNext == SttSave \/ SttVanish \/ SttTranscribe \/ SttJoin \/ SttFinally

SttSpec == SttInit /\ [][SttNext]_vars

(***************************************************************************)
(* Properties.                                                             *)
(***************************************************************************)
\* the container holds only zero samples written as silence
IsSilence(w) == w.payload.kind = "zeros"

\* the strategy (1, 2 or 3) a call of the Piper handler belongs to
CallStrategy(c) ==
  CASE c.fn \in {"phonemize", "phonemes_to_ids", "phoneme_ids_to_audio"} -> 1
    [] c.fn = "synthesize_wav" -> 2
    [] c.fn = "synthesize" -> 3
    [] OTHER -> 0

\* the position of a strategy in the order of the handler
StrategyIndex(name) == CHOOSE k \in 1..Len(STRATEGIES) : STRATEGIES[k] = name

CalledFns == {calls[j].fn : j \in 1..Len(calls)}

\* C1 (totality): every handler of either server that has returned has
\* returned a 200 response whose container is longer than the 44-byte
\* header, and no handler ever ends in an error response.
C1_Totality ==
  /\ response.status # 500
  /\ pc = "done" => response.status = 200 /\ ByteLen(response.wav) > 44

\* C1 witness: the Piper handler returned after all three strategies failed
C1_Witness == server = "piper" /\ pc = "done" /\ Len(attempts) = 3 /\ IsSilence(response.wav)

\* C2 (first success wins, Piper): when a strategy's container passed the
\* validation, it is the last attempt, the handler has returned exactly that
\* container, and no method of a later strategy was called.
C2_FirstSuccessWins ==
  server = "piper" =>
    \A i \in 1..Len(attempts) :
      attempts[i].result = "success" =>
        /\ i = Len(attempts)
        /\ pc = "done"
        /\ response.status = 200
        /\ response.origin = attempts[i].strategy
        /\ response.wav = attempts[i].out
        /\ \A j \in 1..Len(calls) :
             CallStrategy(calls[j]) <= StrategyIndex(attempts[i].strategy)

\* C2 witness: synthesize_wav succeeded after the manual strategy failed
C2_Witness ==
  /\ server = "piper" /\ pc = "done" /\ Len(attempts) = 2
  /\ attempts[2].result = "success" /\ response.origin = "synthesize_wav"

\* C3 (fixed priority order, Piper): a method of strategy k is called only
\* when exactly the strategies 1..k-1 have been attempted, in that order, and
\* none of them succeeded; attempts are only ever appended.  So the strategy
\* index never decreases and no strategy is tried again after a later one.
C3_FixedOrder ==
  [][server = "piper" =>
       /\ Len(attempts') >= Len(attempts)
       /\ SubSeq(attempts', 1, Len(attempts)) = attempts
       /\ Len(calls') > Len(calls) =>
            LET k == CallStrategy(calls'[Len(calls')])
            IN  /\ k \in 1..3
                /\ Len(attempts) = k - 1
                /\ \A i \in 1..(k - 1) :
                     /\ attempts[i].strategy = STRATEGIES[i]
                     /\ attempts[i].result # "success"]_vars

\* C3 witness: the last strategy was reached
C3_Witness == server = "piper" /\ "synthesize" \in CalledFns /\ "synthesize_wav" \in CalledFns

\* the strategies of a request are exhausted: Piper tried all three without
\* a success; XTTS called the model and got a fault or no audio, or had to
\* skip the call for want of a speaker file
XttsStrategyFailed ==
  calls # <<>> /\ (calls[Len(calls)].fault # None \/ XttsWavEmpty(wav))

XttsStrategySkipped ==
  /\ calls = <<>>
  /\ (speaker = None \/ ~IsFile(speaker[1], files))
  /\ XttsTextVerdict(req.text) = "ok"

Exhausted ==
  /\ pc = "done"
  /\ \/ server = "piper" /\ Len(attempts) = 3 /\ attempts[3].result # "success"
     \/ server = "xtts" /\ (XttsStrategyFailed \/ XttsStrategySkipped)

\* the container is silence that lasts `tenths` tenths of a second
SilenceOf(w, tenths) == IsSilence(w) /\ 10 * w.payload.n = tenths * w.framerate

\* the first tts.tts call raised something that is not a RuntimeError
FirstCallRaisedOther ==
  /\ server = "xtts" /\ Len(calls) = 1
  /\ calls[1].fault # None /\ calls[1].fault[1].type # "RuntimeError"

\* C4 as claimed: whenever the strategies are exhausted the response is
\* silence of 0.1 s, whatever the failure, on both servers.
C4_Original == Exhausted => SilenceOf(response.wav, 1)

\* C4 amended: whenever the strategies are exhausted the response is
\* silence; it lasts 0.1 s, except that the XTTS handler returns 0.2 s when
\* the first tts.tts call raised a fault that is not a RuntimeError.
C4_SilenceDuration ==
  Exhausted =>
    /\ response.status = 200
    /\ IF FirstCallRaisedOther THEN SilenceOf(response.wav, 2)
       ELSE SilenceOf(response.wav, 1)

\* C4 witness: the XTTS handler answered a non-RuntimeError fault
C4_Witness == Exhausted /\ FirstCallRaisedOther /\ response.wav.payload.n = 4800

\* C5 (fault containment): no response is an error; when the latest
\* tts.tts call raised, the XTTS handler is about to retry or has returned
\* silence; when a Piper strategy ended in a fault, the handler stands at the
\* next strategy or, after the last one, has returned silence.
C5_FaultContainment ==
  /\ response.status # 500
  /\ (server = "xtts" /\ calls # <<>> /\ calls[Len(calls)].fault # None) =>
       \/ pc = "retry" /\ Len(calls) = 1 /\ response = NoResponse
       \/ pc = "done" /\ response.status = 200 /\ IsSilence(response.wav)
  /\ (server = "piper" /\ attempts # <<>> /\ attempts[Len(attempts)].result = "failed") =>
       \/ pc = StrategyStart(Len(attempts) + 1) /\ response = NoResponse
       \/ /\ Len(attempts) = 3 /\ pc = "done"
          /\ response.status = 200 /\ IsSilence(response.wav)

\* C5 witness: the retry call raised too
C5_Witness ==
  /\ server = "xtts" /\ pc = "done" /\ Len(calls) = 2
  /\ calls[1].fault # None /\ calls[2].fault # None

\* C6 (skip on missing capability): XTTS, past the speaker check without a
\* speaker or with a speaker file that is gone: tts.tts was not called and
\* silence was returned.  Piper, voice without phonemes_to_ids: neither
\* phonemes_to_ids nor phoneme_ids_to_audio is ever called, and the manual
\* attempt is followed by synthesize_wav.
C6_SkipMissingCapability ==
  /\ (/\ server = "xtts" /\ pc \notin {"start", "resolve", "check"}
      /\ (speaker = None \/ ~IsFile(speaker[1], files))
      /\ XttsTextVerdict(req.text) = "ok") =>
       /\ calls = <<>> /\ pc = "done"
       /\ response.status = 200 /\ IsSilence(response.wav)
  /\ (server = "piper" /\ voice.loaded /\ ~voice.has_phonemes_to_ids) =>
       /\ CalledFns \cap {"phonemes_to_ids", "phoneme_ids_to_audio"} = {}
       /\ attempts # <<>> =>
            /\ attempts[1].result \in {"skipped", "failed"}
            /\ pc = "synthesize_wav" \/ (Len(calls) >= 2 /\ calls[2].fn = "synthesize_wav")

\* C6 witness: the speaker file vanished between resolution and check
C6_Witness ==
  /\ server = "xtts" /\ pc = "done" /\ speaker # None
  /\ ~IsFile(speaker[1], files) /\ calls = <<>>

\* the number of tokens bearing an alphanumeric character, counted as
\* sanitize_text counts them
TokenCount(t) == Len(Words(TrimEdges(Restrict(Normalize(t)))))

\* the request text has been read
TextRead == pc # "start" /\ (server = "piper" => voice.loaded)

\* C7 as claimed: on either server a request text of fewer than 2 such tokens
\* leads to no synthesis call and to silence.
C7_Original ==
  (TextRead /\ TokenCount(req.text) < 2) =>
    /\ calls = <<>>
    /\ pc = "done" => IsSilence(response.wav)

\* C7 amended: the XTTS handler returns silence without any synthesis call
\* for every text of fewer than 2 such tokens; the Piper handler does so only
\* for a text of fewer than 2 characters after stripping.
C7_TokenRejection ==
  /\ (server = "xtts" /\ TextRead /\ TokenCount(req.text) < 2) =>
       /\ calls = <<>> /\ pc = "done"
       /\ response.status = 200 /\ IsSilence(response.wav)
  /\ (server = "piper" /\ TextRead /\ Len(Strip(req.text, Whitespace)) < 2) =>
       /\ calls = <<>> /\ pc = "done"
       /\ response.status = 200 /\ IsSilence(response.wav)

\* C7 witness: a single long word was refused by the XTTS handler
C7_Witness ==
  /\ server = "xtts" /\ pc = "done" /\ TokenCount(req.text) = 1
  /\ AlnumCount(req.text) >= 5 /\ IsSilence(response.wav)

\* the text is two alphanumeric words separated by one blank
PlainTwoTokens(t) ==
  /\ \A i \in 1..Len(t) : IsAlnum(t[i]) \/ t[i] = " "
  /\ Len(Split(t)) = 2
  /\ Join(Split(t)) = t

SpeakerResolved == speaker # None /\ IsFile(speaker[1], files)

\* C8 as claimed: a text of two plain tokens and 5 characters, with a
\* resolvable speaker, is passed on to tts.tts.
C8_Original ==
  (/\ server = "xtts" /\ pc = "done" /\ PlainTwoTokens(req.text)
   /\ Len(req.text) = 5 /\ SpeakerResolved) => calls # <<>>

\* C8 amended: sanitize_text returns a text of two plain tokens and 5
\* characters unchanged, but the XTTS handler answers it with silence and
\* never calls tts.tts (it has 4 alphanumeric characters, 5 are required);
\* with 6 or more characters and a resolvable speaker it is passed on.
C8_AcceptanceBoundary ==
  (server = "xtts" /\ pc # "start" /\ PlainTwoTokens(req.text) /\ Len(req.text) >= 5) =>
    /\ pc \in {"resolve", "check"} => text = req.text
    /\ Len(req.text) = 5 =>
         /\ calls = <<>>
         /\ pc \in {"resolve", "check", "done"}
         /\ pc = "done" => response.status = 200 /\ IsSilence(response.wav)
    /\ (Len(req.text) > 5 /\ pc = "done" /\ SpeakerResolved) => calls # <<>>

\* C8 witness: such a 5-character text ended in silence although the
\* speaker file was there
C8_Witness ==
  /\ server = "xtts" /\ pc = "done" /\ PlainTwoTokens(req.text) /\ Len(req.text) = 5
  /\ SpeakerResolved /\ calls = <<>> /\ IsSilence(response.wav)

\* C9 (idempotence): sanitize_text applied to a non-empty result of its own
\* returns that result.
C9_Idempotence == (pc = "sanitized" /\ sanOut # <<>>) => sanAgain = sanOut

\* C10 (encoder bounds): a float sample of the manual strategy is written as
\* a value within [-32767, 32767]; 1.0 and everything above become 32767,
\* -1.0 and everything below -32767, 0.0 becomes 0, and the sign is kept.
C10_EncoderBounds ==
  (server = "piper" /\ response.origin = "manual"
   /\ audio_data.kind \in {"float32", "list"}) =>
    /\ response.wav.payload.kind = "samples"
    /\ Len(response.wav.payload.s) = Len(audio_data.s)
    /\ \A i \in 1..Len(audio_data.s) :
         LET v == audio_data.s[i]
             o == response.wav.payload.s[i]
         IN  /\ o \in -32767..32767
             /\ v >= One => o = 32767
             /\ v <= -One => o = -32767
             /\ v = 0 => o = 0
             /\ v > 0 => o >= 0
             /\ v < 0 => o <= 0

\* C10 witness: a sample of 2.0 was encoded
C10_Witness ==
  /\ server = "piper" /\ response.origin = "manual" /\ audio_data.kind = "float32"
  /\ \E i \in 1..Len(audio_data.s) : audio_data.s[i] = 2 * One

\* round(x) of Python for the fraction num / den: to nearest, ties to even
RoundHalfEven(num, den) ==
  LET q == num \div den
      r == num % den
  IN  IF 2 * r > den \/ (2 * r = den /\ q % 2 = 1) THEN q + 1 ELSE q

\* C11 (silence shape): create_silent_wav returns a mono 16-bit container of
\* exactly round(duration * sample rate) zero samples, for every duration.
C11_SilenceShape ==
  pc = "silenced" =>
    /\ silent_wav.channels = 1 /\ silent_wav.sampwidth = 2
    /\ IsSilence(silent_wav)
    /\ silent_wav.payload.n = RoundHalfEven(silence_ms * silent_wav.framerate, 1000)

\* the Piper handler has read the request and built its synthesis config
PiperConfigured == server = "piper" /\ voice.loaded /\ pc # "start"

\* the speaker ids the synthesis calls were given
ConfigSpeakerIds ==
  {calls[j].syn_config[1].speaker_id : j \in {i \in 1..Len(calls) : calls[i].syn_config # None}}

\* the request's speaker string parsed as an integer, None when it is absent
\* or not a number
ParsedSpeaker == IF req.speaker = None THEN None ELSE PyInt(req.speaker[1])

IntoIdRange(x) == IF x < 0 THEN 0 ELSE IF x > 903 THEN 903 ELSE x

\* the returns of the Piper handler that come before any synthesis call and
\* do not depend on the speaker
EARLY_RETURNS == {"config_error", "empty_text", "too_short"}

\* C20 (speaker ID priority, Piper): a given speaker_id decides, whatever the
\* speaker string; without it a speaker string that parses as an integer
\* decides; otherwise the id is 0.  A speaker string that is not a number
\* never ends the request: no error response, and a return without any
\* synthesis call has one of the causes that have nothing to do with the
\* speaker.
C20_SpeakerIdPriority ==
  PiperConfigured =>
    /\ req.speaker_id # None => speaker_id = IntoIdRange(req.speaker_id[1])
    /\ (req.speaker_id = None /\ ParsedSpeaker # None) =>
         speaker_id = IntoIdRange(ParsedSpeaker[1])
    /\ (req.speaker_id = None /\ ParsedSpeaker = None) => speaker_id = 0
    /\ (req.speaker # None /\ ParsedSpeaker = None) =>
         /\ response.status # 500
         /\ (pc = "done" /\ calls = <<>>) => response.origin \in EARLY_RETURNS

\* C20 witness: speaker_id 5000 won over the speaker string 12
C20_Witness ==
  /\ PiperConfigured /\ req.speaker_id = Some(5000) /\ ParsedSpeaker = Some(12)
  /\ ConfigSpeakerIds = {903}

\* how many times the method fn was called
CallCount(fn) == Cardinality({j \in 1..Len(calls) : calls[j].fn = fn})

\* the positions of each handler in the order of its code, the response last
XttsPositions == <<"start", "resolve", "check", "prepare", "call1", "retry", "encode", "done">>
PiperPositions ==
  <<"start", "phonemize", "phonemes_to_ids", "audio1", "audio2", "encode",
    "synthesize_wav", "synthesize", "exhausted", "done">>
HandlerPositions == IF server = "xtts" THEN XttsPositions ELSE PiperPositions

\* how far the position p is from the start of the handler
PositionIndex(p) == CHOOSE k \in 1..Len(HandlerPositions) : HandlerPositions[k] = p

\* C13 (termination with bounded attempts): the handler always stands at one
\* of its finitely many positions, every step it takes moves it to a later
\* one (nothing is gone through twice, and "done" ends the order), and at
\* every moment it has made at most two phoneme_ids_to_audio calls and one
\* call each of phonemize, phonemes_to_ids, synthesize_wav and synthesize
\* (Piper), at most two tts.tts calls (XTTS).
C13_BoundedTermination ==
  /\ [](/\ \E k \in 1..Len(HandlerPositions) : HandlerPositions[k] = pc
        /\ CallCount("phoneme_ids_to_audio") <= 2
        /\ CallCount("phonemize") <= 1 /\ CallCount("phonemes_to_ids") <= 1
        /\ CallCount("synthesize_wav") <= 1 /\ CallCount("synthesize") <= 1
        /\ CallCount("tts.tts") <= 2
        /\ CalledFns \subseteq (IF server = "xtts" THEN {"tts.tts"}
                                ELSE {"phonemize", "phonemes_to_ids", "phoneme_ids_to_audio",
                                      "synthesize_wav", "synthesize"}))
  /\ [][/\ pc' # pc => PositionIndex(pc') > PositionIndex(pc)
        /\ calls' # calls => (pc' # pc /\ Len(calls') = Len(calls) + 1)]_vars

\* C13 witness: the Piper handler answered after two phoneme_ids_to_audio
\* calls, a synthesize_wav call and a synthesize call
C13_Witness ==
  /\ server = "piper" /\ pc = "done" /\ CallCount("phoneme_ids_to_audio") = 2
  /\ CallCount("synthesize_wav") = 1 /\ CallCount("synthesize") = 1

\* strategy k + 1 of the Piper handler is about to run or has been called
TriedNext(k) == pc = StrategyStart(k + 1) \/ CallCount(STRATEGIES[k + 1]) = 1

\* the manual strategy got as far as phoneme_ids_to_audio and its encoding
\* step is over
ManualEncoded ==
  /\ server = "piper" /\ CallCount("phoneme_ids_to_audio") >= 1
  /\ pc \notin {"audio1", "audio2", "encode"}
  /\ Len(attempts) >= 1 /\ attempts[1].result # "failed"

\* C14 (invalid or empty output advances the chain, Piper): manual audio
\* that is None or of length zero, or a manual container of at most 44 bytes,
\* is not returned and synthesize_wav comes next; a synthesize_wav file of at
\* most 44 bytes is not returned and synthesize comes next; a strategy's
\* result is the response only when it is longer than 44 bytes.
C14_InvalidAdvances ==
  server = "piper" =>
    /\ (ManualEncoded /\ ~AudioPresent(audio_data)) =>
         /\ attempts[1].result = "empty"
         /\ response.origin # "manual" /\ TriedNext(1)
    /\ (ManualEncoded /\ AudioPresent(audio_data)
        /\ ByteLen(EncodeManual(audio_data, voice.sample_rate)) <= 44) =>
         /\ response.origin # "manual" /\ TriedNext(1)
    /\ \A i \in 1..Len(attempts) :
         /\ (attempts[i].result = "invalid" \/ ByteLen(attempts[i].out) <= 44) =>
              /\ attempts[i].result # "success"
              /\ response.origin # attempts[i].strategy
              /\ i < 3 => TriedNext(i)
         /\ attempts[i].result = "success" => ByteLen(attempts[i].out) > 44
    /\ response.origin \in {STRATEGIES[k] : k \in 1..3} => ByteLen(response.wav) > 44

\* C14 witness: synthesize was called after synthesize_wav left a file of
\* the header alone, itself called after the manual audio was empty
C14_Witness ==
  /\ ManualEncoded /\ ~AudioPresent(audio_data) /\ Len(attempts) >= 2
  /\ attempts[2].result = "invalid" /\ ByteLen(attempts[2].out) = 44
  /\ CallCount("synthesize") = 1

\* the characters the claim allows in a sanitized text
SANITIZED_CHARS == Letters \cup Digits \cup {" ", ".", ",", "!", "?", "-", "'", "\""}

\* o has the form the claim gives a sanitized text
WellSanitized(o) ==
  /\ Len(o) >= 5 /\ Len(o) <= 200
  /\ \A i \in 1..Len(o) : o[i] \in SANITIZED_CHARS
  /\ o[1] # " " /\ o[Len(o)] # " "
  /\ \A i \in 1..(Len(o) - 1) : ~(o[i] = " " /\ o[i + 1] = " ")
  /\ Len(Split(o)) >= 2
  /\ \A k \in 1..Len(Split(o)) : HasAlnum(Split(o)[k])

\* C15 (sanitizer output invariant): whatever sanitize_text returns is empty
\* or is 5 to 200 characters long, made of letters, digits, single blanks and
\* . , ! ? - ' ", without a blank at either end, and of at least 2 tokens
\* that each hold an alphanumeric character.
C15_SanitizerOutput ==
  /\ (pc \in {"sanitize_again", "sanitized"} /\ sanOut # <<>>) => WellSanitized(sanOut)
  /\ (pc = "sanitized" /\ sanAgain # <<>>) => WellSanitized(sanAgain)

\* C15 witness: an input that had to be changed was accepted
C15_Witness ==
  /\ pc = "sanitized" /\ sanOut # <<>> /\ sanOut # sanIn
  /\ \E i \in 1..Len(sanIn) : sanIn[i] \notin SANITIZED_CHARS

\* the text ends with one of . ! ?
EndsTerminal(t) == t # <<>> /\ t[Len(t)] \in {".", "!", "?"}

\* C16 as claimed: the text of every synthesis call, of either server, ends
\* with one of . ! ?
C16_Original == \A j \in 1..Len(calls) : EndsTerminal(calls[j].text)

\* C16 amended: the text of every tts.tts call of the XTTS handler, the
\* retry included, ends with one of . ! ?; the Piper handler hands its
\* methods the request text stripped of blanks at its ends and nothing more.
C16_TerminalPunctuation ==
  /\ server = "xtts" => \A j \in 1..Len(calls) : EndsTerminal(calls[j].text)
  /\ server = "piper" =>
       \A j \in 1..Len(calls) : calls[j].text = Strip(req.text, Whitespace)

\* C16 witness: the XTTS retry was made for a request text without a period
C16_Witness ==
  /\ server = "xtts" /\ Len(calls) = 2 /\ ~EndsTerminal(Strip(req.text, Whitespace))
  /\ EndsTerminal(calls[2].text)

\* C17 (float encoding rounds to nearest): a float sample v of the manual
\* strategy is written as the integer nearest to clamp(v, -1.0, 1.0) * 32767.
C17_RoundsToNearest ==
  (server = "piper" /\ response.origin = "manual" /\ audio_data.kind = "float32") =>
    \A i \in 1..Len(audio_data.s) :
      response.wav.payload.s[i] =
        RoundHalfEven(Max(-One, Min(One, audio_data.s[i])), FloatDen)

\* the manual strategy's container is the response
ManualReturned == server = "piper" /\ response.origin = "manual"

\* C18 as claimed: 16-bit integer samples are written unchanged, and output
\* that is neither float nor 16-bit integer (an int32 array, a plain list, a
\* byte blob) is written as the bytes it is.
C18_Original ==
  ManualReturned =>
    /\ audio_data.kind = "int16" =>
         response.wav.payload = [kind |-> "samples", s |-> audio_data.s]
    /\ audio_data.kind \in {"int32", "list", "bytes"} =>
         response.wav.payload = [kind |-> "bytes", s |-> audio_data.s]

\* C18 amended: 16-bit integer samples are written unchanged and a byte blob
\* is written as it is; an array of another integer type and a plain list are
\* re-encoded as 16-bit samples: clamped to [-1, 1] and scaled by 32767, so
\* that an int32 sample of 1 or more becomes 32767, one of -1 or less -32767,
\* and a list sample of 1.0 or more 32767, one of -1.0 or less -32767.
C18_EncoderRules ==
  ManualReturned =>
    /\ audio_data.kind = "int16" =>
         response.wav.payload = [kind |-> "samples", s |-> audio_data.s]
    /\ audio_data.kind = "bytes" =>
         response.wav.payload = [kind |-> "bytes", s |-> audio_data.s]
    /\ audio_data.kind \in {"int32", "list"} =>
         /\ response.wav.payload.kind = "samples"
         /\ Len(response.wav.payload.s) = Len(audio_data.s)
         /\ \A i \in 1..Len(audio_data.s) :
              LET v == audio_data.s[i]
                  unit == IF audio_data.kind = "int32" THEN 1 ELSE One
                  o == response.wav.payload.s[i]
              IN  /\ v >= unit => o = 32767
                  /\ v <= -unit => o = -32767
                  /\ v = 0 => o = 0
                  /\ o \in -32767..32767

\* C18 witness: an int32 sample of 70000 was written as 32767
C18_Witness ==
  /\ ManualReturned /\ audio_data.kind = "int32"
  /\ \E i \in 1..Len(audio_data.s) :
       audio_data.s[i] = 70000 /\ response.wav.payload.s[i] = 32767

\* the largest magnitude among the samples of w, 0 for none
RECURSIVE MaxAmplitude(_)
MaxAmplitude(x) ==
  IF x = <<>> THEN 0
  ELSE LET rest == MaxAmplitude(Tail(x))
           first == IF Head(x) < 0 THEN -Head(x) ELSE Head(x)
       IN  IF first > rest THEN first ELSE rest

\* C19 (quiet output is not a failure, XTTS): when the model returned audio
\* that is not empty and whose largest magnitude is below 0.001, all zeros
\* included, the response is the encoding of that audio, not generated
\* silence, and no call follows the one that returned it.
C19_QuietIsSuccess ==
  (server = "xtts" /\ pc = "done" /\ calls # <<>> /\ calls[Len(calls)].fault = None
   /\ wav.kind # "none" /\ Len(wav.s) > 0 /\ 1000 * MaxAmplitude(wav.s) < One) =>
    /\ response.status = 200
    /\ ~IsSilence(response.wav)
    /\ response.wav = Wav(24000, [kind |-> "pcm16_of", s |-> wav.s])

\* C19 witness: audio of zeros alone was returned encoded
C19_Witness ==
  /\ server = "xtts" /\ pc = "done" /\ calls # <<>> /\ calls[Len(calls)].fault = None
  /\ Len(wav.s) > 0 /\ MaxAmplitude(wav.s) = 0 /\ response.origin = "success"

\* the path a request asks for: none when speaker_wav is absent, empty or
\* blank, else the path itself, a relative one joined to the base directory
RequestedPath(sw) ==
  IF sw = None \/ sw[1] = <<>> \/ sw[1] = BlankPath THEN None
  ELSE IF sw[1][1] = "/" THEN sw ELSE Some(BASE_DIR \o sw[1])

\* what the claim says resolve_speaker_path returns for sw when fs exist
ResolvedAsClaimed(sw, fs, result) ==
  LET asked == RequestedPath(sw)
  IN  /\ (asked # None /\ result = asked) <=> (asked # None /\ asked[1] \in fs)
      /\ ~(asked # None /\ asked[1] \in fs) =>
           result = (IF DEFAULT_SPEAKER_WAV \in fs THEN Some(DEFAULT_SPEAKER_WAV) ELSE None)
      /\ result # None => result[1] \in fs

\* C21 (speaker path resolution, XTTS): the step that resolves the speaker
\* leaves the requested path if and only if that file exists, otherwise the
\* default path if it exists, otherwise None, and what it leaves is an
\* existing file; every tts.tts call is made with the resolved speaker, and
\* that file existed when the handler checked it.
C21_SpeakerResolution ==
  /\ [][(server = "xtts" /\ pc = "resolve" /\ pc' = "check") =>
          ResolvedAsClaimed(req'.speaker_wav, files, speaker')]_vars
  /\ [](server = "xtts" =>
          \A i \in 1..Len(calls) :
            /\ speaker # None /\ calls[i].speaker = speaker[1]
            /\ calls[i].speaker \in files)

\* C21 witness: the requested file was gone, the default was resolved and
\* tts.tts was called with it
C21_Witness ==
  /\ server = "xtts" /\ calls # <<>> /\ RequestedPath(req.speaker_wav) # None
  /\ RequestedPath(req.speaker_wav)[1] \notin files
  /\ calls[1].speaker = DEFAULT_SPEAKER_WAV

\* the sample rate a server declares: the loaded voice's configured rate for
\* Piper, 24000 for XTTS
DeclaredRate == IF server = "xtts" THEN 24000 ELSE voice.sample_rate

\* C22 (uniform canonical format): every container a /tts handler returns,
\* synthesis or silence, is mono, 16-bit and stamped with the rate its server
\* declares (for Piper: whenever a voice is loaded).
C22_UniformFormat ==
  (pc = "done" /\ response.status = 200 /\ (server = "piper" => voice.loaded)) =>
    /\ response.wav.channels = 1
    /\ response.wav.sampwidth = 2
    /\ response.wav.framerate = DeclaredRate

\* the fault of a call is a RuntimeError whose message holds index, assert
\* or cuda
RetryFault(fault) ==
  /\ fault # None /\ fault[1].type = "RuntimeError"
  /\ fault[1].msg \in {"index", "assert", "cuda"}

\* the characters a simplified text may hold
SIMPLE_CHARS == Letters \cup Digits \cup {" ", "."}

\* st is a simplified text for t: letters, digits, blanks and periods alone,
\* and the fixed sentence when fewer than 3 such characters are left of t
SimplifiedFrom(t, st) ==
  LET Kept(c) == c \in SIMPLE_CHARS
  IN  /\ \A i \in 1..Len(st) : st[i] \in SIMPLE_CHARS
      /\ Len(SelectSeq(t, Kept)) < 3 =>
           st = <<"H", "e", "l", "l", "o", " ", "w", "o", "r", "l", "d", ".">>

\* C23 (XTTS retry policy): tts.tts is called at most twice; a second call is
\* made if and only if the first raised a RuntimeError whose message holds
\* index, assert or cuda, and it is made with the simplified text; a fault of
\* any other kind on the first call, and any fault on the second, is answered
\* with silence.
C23_RetryPolicy ==
  server = "xtts" =>
    /\ Len(calls) <= 2
    /\ Len(calls) = 2 =>
         /\ RetryFault(calls[1].fault)
         /\ SimplifiedFrom(calls[1].text, calls[2].text)
    /\ (pc = "done" /\ calls # <<>> /\ RetryFault(calls[1].fault)) => Len(calls) = 2
    /\ (pc = "done" /\ calls # <<>> /\ calls[Len(calls)].fault # None) =>
         response.status = 200 /\ IsSilence(response.wav)

\* C23 witness: the first call raised a cuda RuntimeError, the retry raised
\* too and silence was returned
C23_Witness ==
  /\ server = "xtts" /\ pc = "done" /\ Len(calls) = 2
  /\ RetryFault(calls[1].fault) /\ calls[1].fault[1].msg = "cuda"
  /\ calls[2].fault # None /\ calls[2].text # calls[1].text
  /\ IsSilence(response.wav)

\* the handlers that passed text and speaker validation
Validated == {h \in DOMAIN handlers : handlers[h].pc \notin {"validate", "rejected"}}

\* every concurrent handler has returned or is past the counter
AllReturned ==
  /\ handlers # <<>>
  /\ \A h \in DOMAIN handlers : handlers[h].pc \in {"rejected", "done"}

\* the multiples of 5 among the n counts that follow a
MultiplesReached(a, n) == Cardinality({k \in (a + 1)..(a + n) : k % 5 = 0})

\* C24 as claimed: after N validated requests, in any interleaving,
\* generation_count has grown by N and the cache release was requested once
\* for each multiple of 5 reached.
C24_Original ==
  AllReturned =>
    /\ generation_count = start_count + Cardinality(Validated)
    /\ cuda => cache_clears = MultiplesReached(start_count, Cardinality(Validated))

\* C24 amended: a refused request never writes the counter; N validated
\* requests leave it grown by at least 1 and at most N, each requests the
\* periodic release at most once, and when no two of them were at the counter
\* at once it has grown by exactly N with one release for each multiple of 5
\* reached (none without an accelerator).
C24_Counter ==
  /\ [][\A h \in DOMAIN handlers :
          (handlers[h].pc = "validate" /\ handlers'[h].pc = "rejected") =>
            generation_count' = generation_count /\ cache_clears' = cache_clears]_vars
  /\ [](AllReturned =>
          LET n == Cardinality(Validated)
          IN  /\ n = 0 => generation_count = start_count
              /\ n > 0 => generation_count \in (start_count + 1)..(start_count + n)
              /\ cache_clears = Cardinality({h \in Validated : handlers[h].released})
              /\ ~cuda => cache_clears = 0
              /\ ~overlapped =>
                   /\ generation_count = start_count + n
                   /\ cuda => cache_clears = MultiplesReached(start_count, n))

\* C24 witness: two handlers read the same count and one increment was lost
C24_Witness ==
  /\ AllReturned /\ overlapped /\ Cardinality(Validated) >= 2
  /\ generation_count < start_count + Cardinality(Validated)

\* C25 (scratch file cleanup, Piper): when the /tts handler has returned, the
\* temporary file of the synthesize_wav strategy does not exist, whether the
\* strategy succeeded, wrote 44 bytes or fewer, or raised.
C25_ScratchCleanup ==
  (server = "piper" /\ pc = "done") => TEMP_PATH \notin files

\* C26 (upload file cleanup, STT): when the /stt handler has finished, the
\* temporary file it wrote the upload to does not exist, after a successful
\* transcription as after a fault of model.transcribe or of the iteration
\* over its segments; such a fault is not turned into a response of the
\* handler but reaches the caller, and a success answers with the joined text.
C26_UploadCleanup ==
  (server = "stt" /\ pc = "done") =>
    /\ path # None /\ path[1] \notin files
    /\ raised # None => response.status = 500
    /\ raised = None =>
         /\ response.status = 200
         /\ \A i \in 1..Len(segments) : segments[i].kind = "segment"
    /\ (\E i \in 1..Len(segments) : segments[i].kind = "raise") => raised # None

\* C26 witness: the iteration over the segments raised after transcribe had
\* returned; the file is gone and the caller got the fault
C26_Witness ==
  /\ server = "stt" /\ pc = "done" /\ calls # <<>> /\ Len(segments) = 2
  /\ segments[2].kind = "raise" /\ raised = Some(segments[2].fault)
  /\ STT_TEMP_PATH \notin files /\ response.status = 500
====
